---------------------------- MODULE Spec2Model ----------------------------
(***************************************************************************)
(* A model of backup_tool.py: the incremental backup engine                *)
(* (scan_and_backup), the integrity verifier (verify_backup_integrity),    *)
(* the manifest store (load_manifest / save_manifest) and the fingerprint  *)
(* function (calculate_file_hash), over a small file system.               *)
(*                                                                         *)
(* Representation.  A Python str is a sequence of atoms: a path is the     *)
(* sequence of its components ("b/c.txt" is <<"b", "c.txt">>, so that      *)
(* os.path.join is concatenation and os.path.relpath removes a prefix).    *)
(* A file's content is a sequence of units, each unit a str: a byte of an  *)
(* ordinary file, a lexical token of a JSON text.  A Python value read     *)
(* from JSON is a record [t, s, items] of uniform shape.                   *)
(***************************************************************************)
EXTENDS Naturals, Sequences, FiniteSets, TLC

(***************************************************************************)
(* Bounds of the model.                                                    *)
(***************************************************************************)
\* chunk_size of calculate_file_hash (4096 in the source), scaled to the
\* model's file sizes so that a file spans more than one chunk.
chunk_size == 2
\* Invocations of the command line tool in one behaviour.
MaxRuns == 2
\* External events (edits of the trees or of the manifest file, kills).
MaxExt == 1
\* Invocations in a behaviour of SpecLong: a complete run, a killed run and
\* a complete run.
LongRuns == 3

MANIFEST_FILE_NAME == "manifest.json"

(***************************************************************************)
(* Sequences.                                                              *)
(***************************************************************************)
Range(s) == {s[i] : i \in 1..Len(s)}

IsPrefix(p, s) == Len(p) <= Len(s) /\ SubSeq(s, 1, Len(p)) = p

Front(s) == SubSeq(s, 1, Len(s) - 1)

Last(s) == s[Len(s)]

\* All orders in which a set can be enumerated (os.scandir gives no order).
RECURSIVE Perms(_)
Perms(S) ==
    IF S = {} THEN {<<>>}
    ELSE UNION {{<<x>> \o q : q \in Perms(S \ {x})} : x \in S}

(***************************************************************************)
(* os.path                                                                 *)
(***************************************************************************)
join(a, b) == a \o b

relpath(path, start) == SubSeq(path, Len(start) + 1, Len(path))

dirname(path) == Front(path)

basename(path) == Last(path)

\* A directory and all its ancestors (what os.makedirs leaves existing).
Ancestors(d) == {SubSeq(d, 1, n) : n \in 0..Len(d)}

(***************************************************************************)
(* Python values as json.load produces them.                               *)
(***************************************************************************)
PyNone == [t |-> "none", s |-> <<>>, items |-> <<>>]

PyStr(s) == [t |-> "str", s |-> s, items |-> <<>>]

PyNum(s) == [t |-> "num", s |-> s, items |-> <<>>]

PyDict(items) == [t |-> "dict", s |-> <<>>, items |-> items]

PyList(items) == [t |-> "list", s |-> <<>>, items |-> items]

Item(k, v) == [k |-> k, v |-> v]

Keys(d) == {d.items[i].k : i \in 1..Len(d.items)}

HasKey(d, k) == \E i \in 1..Len(d.items) : d.items[i].k = k

\* d[k] for a key that is present.
Lookup(d, k) == d.items[CHOOSE i \in 1..Len(d.items) : d.items[i].k = k].v

\* dict.get(k): None when the key is absent.
DictGet(d, k) == IF HasKey(d, k) THEN Lookup(d, k) ELSE PyNone

\* The items of a dict after d[k] = v: an existing key keeps its place.
SetItem(items, k, v) ==
    IF \E i \in 1..Len(items) : items[i].k = k
    THEN [i \in 1..Len(items) |->
            IF items[i].k = k THEN Item(k, v) ELSE items[i]]
    ELSE Append(items, Item(k, v))

\* Mutant: the assignment starts the dict anew.
DictSet_anew(d, k, v) == PyDict(<<Item(k, v)>>)

DictSet(d, k, v) == PyDict(SetItem(d.items, k, v))

\* bool(v): what `not manifest` tests.
Truthy(v) ==
    CASE v.t = "none" -> FALSE
      [] v.t = "num" -> v.s # <<"0">>
      [] v.t = "str" -> v.s # <<>>
      [] OTHER -> v.items # <<>>

\* Python's ==, which ignores the order of a dict's keys.
RECURSIVE PyEq(_, _)
PyEq(a, b) ==
    /\ a.t = b.t
    /\ a.s = b.s
    /\ IF a.t = "dict"
       THEN /\ Keys(a) = Keys(b)
            /\ \A k \in Keys(a) : PyEq(Lookup(a, k), Lookup(b, k))
       ELSE /\ Len(a.items) = Len(b.items)
            /\ \A i \in 1..Len(a.items) : PyEq(a.items[i].v, b.items[i].v)

(***************************************************************************)
(* The JSON text of a value, as a sequence of lexical tokens.              *)
(***************************************************************************)
LBRACE == <<"{">>
RBRACE == <<"}">>
LBRACKET == <<"[">>
RBRACKET == <<"]">>
COLON == <<":">>
COMMA == <<",">>
NULL == <<"null">>
SPACE == <<" ">>
NEWLINE == <<"\n">>
\* A byte sequence that is not valid UTF-8.
BADBYTE == <<"\\xff">>

Whitespace == {SPACE, NEWLINE}

NumberTokens == {<<"0">>, <<"1">>}

\* A string literal: the string between quotes.
Quote(s) == <<"\"">> \o s

IsStringToken(tok) == Len(tok) > 0 /\ Head(tok) = "\""

Unquote(tok) == Tail(tok)

RECURSIVE DumpItems(_, _)
RECURSIVE Dump(_)
\* json.dump(v, f, indent=4): the text written.
Dump(v) ==
    CASE v.t = "none" -> <<NULL>>
      [] v.t = "str" -> <<Quote(v.s)>>
      [] v.t = "num" -> <<v.s>>
      [] v.t = "dict" ->
            IF v.items = <<>> THEN <<LBRACE, RBRACE>>
            ELSE <<LBRACE>> \o DumpItems(v.items, TRUE) \o <<NEWLINE, RBRACE>>
      [] OTHER ->
            IF v.items = <<>> THEN <<LBRACKET, RBRACKET>>
            ELSE <<LBRACKET>> \o DumpItems(v.items, FALSE)
                    \o <<NEWLINE, RBRACKET>>

DumpItems(items, keyed) ==
    IF items = <<>> THEN <<>>
    ELSE <<NEWLINE>>
            \o (IF keyed THEN <<Quote(Head(items).k), COLON, SPACE>> ELSE <<>>)
            \o Dump(Head(items).v)
            \o (IF Len(items) > 1 THEN <<COMMA>> ELSE <<>>)
            \o DumpItems(Tail(items), keyed)

RECURSIVE SkipWs(_)
SkipWs(toks) ==
    IF toks # <<>> /\ Head(toks) \in Whitespace THEN SkipWs(Tail(toks))
    ELSE toks

\* str.strip()
RECURSIVE RStrip(_)
RStrip(toks) ==
    IF toks # <<>> /\ Last(toks) \in Whitespace THEN RStrip(Front(toks))
    ELSE toks

strip(toks) == RStrip(SkipWs(toks))

ParseOk(v, rest) == [ok |-> TRUE, v |-> v, rest |-> rest]

ParseFail == [ok |-> FALSE, v |-> PyNone, rest |-> <<>>]

RECURSIVE ParseValue(_)
RECURSIVE ParseMembers(_, _, _)
RECURSIVE ParseElements(_, _, _)
\* One JSON value at the head of toks (leading whitespace already skipped).
ParseValue(toks) ==
    IF toks = <<>> THEN ParseFail
    ELSE LET tok == Head(toks) IN
        IF IsStringToken(tok) THEN ParseOk(PyStr(Unquote(tok)), Tail(toks))
        ELSE IF tok = NULL THEN ParseOk(PyNone, Tail(toks))
        ELSE IF tok \in NumberTokens THEN ParseOk(PyNum(tok), Tail(toks))
        ELSE IF tok = LBRACE
            THEN ParseMembers(SkipWs(Tail(toks)), <<>>, TRUE)
        ELSE IF tok = LBRACKET
            THEN ParseElements(SkipWs(Tail(toks)), <<>>, TRUE)
        ELSE ParseFail

\* The members of an object after its "{"; a repeated key keeps the last value.
ParseMembers(toks, acc, first) ==
    IF toks = <<>> THEN ParseFail
    ELSE IF first /\ Head(toks) = RBRACE THEN ParseOk(PyDict(acc), Tail(toks))
    ELSE IF ~IsStringToken(Head(toks)) THEN ParseFail
    ELSE LET key == Unquote(Head(toks))
             r1 == SkipWs(Tail(toks))
         IN  IF r1 = <<>> \/ Head(r1) # COLON THEN ParseFail
             ELSE LET pv == ParseValue(SkipWs(Tail(r1)))
                      r2 == SkipWs(pv.rest)
                      acc2 == SetItem(acc, key, pv.v)
                  IN  IF ~pv.ok \/ r2 = <<>> THEN ParseFail
                      ELSE IF Head(r2) = RBRACE
                          THEN ParseOk(PyDict(acc2), Tail(r2))
                      ELSE IF Head(r2) = COMMA
                          THEN ParseMembers(SkipWs(Tail(r2)), acc2, FALSE)
                      ELSE ParseFail

\* The elements of an array after its "[".
ParseElements(toks, acc, first) ==
    IF toks = <<>> THEN ParseFail
    ELSE IF first /\ Head(toks) = RBRACKET
        THEN ParseOk(PyList(acc), Tail(toks))
    ELSE LET pv == ParseValue(toks)
             r2 == SkipWs(pv.rest)
             acc2 == Append(acc, Item(<<>>, pv.v))
         IN  IF ~pv.ok \/ r2 = <<>> THEN ParseFail
             ELSE IF Head(r2) = RBRACKET THEN ParseOk(PyList(acc2), Tail(r2))
             ELSE IF Head(r2) = COMMA
                 THEN ParseElements(SkipWs(Tail(r2)), acc2, FALSE)
             ELSE ParseFail

\* json.load(f): the value, or JSONDecodeError (ok = FALSE); text after the
\* value is an error too.
json_load(text) ==
    LET pv == ParseValue(SkipWs(text))
    IN  IF pv.ok /\ SkipWs(pv.rest) = <<>> THEN pv ELSE ParseFail


(***************************************************************************)
(* The file system, the command line and the processes.                    *)
(***************************************************************************)
VARIABLES
    files,      \* path of each existing regular file |-> its content
    dirs,       \* paths of the existing directories
    clock,      \* the local clock datetime.now() reads
    args,       \* the absolute paths main() computes: source, backup, manifest
    budget,     \* the invocations and external events a behaviour may hold
    proc,       \* per invocation slot: program counter and local variables
    runs,       \* invocations started so far
    ext,        \* external events so far
    lastDone,   \* history: the backup run that completed last
    prevDone,   \* history: the backup run that completed before it
    pending,    \* history: files copied by backup runs that ended unsaved
    reports     \* history: the last two reports of verify runs

vars ==
    <<files, dirs, clock, args, budget, proc, runs, ext, lastDone, prevDone,
      pending, reports>>

Procs == {1}

\* File contents: "hello", "hello!" and "world", a unit per byte.
HELLO == <<<<"h">>, <<"e">>, <<"l">>, <<"l">>, <<"o">>>>
HELLO_BANG == HELLO \o <<<<"!">>>>
WORLD == <<<<"w">>, <<"o">>, <<"r">>, <<"l">>, <<"d">>>>

Contents == {HELLO, HELLO_BANG}

\* The user's files, relative to the source directory.
UserFiles == {<<"a.txt">>, <<"b", "c.txt">>}

\* Command lines: the manifest beside the trees, inside the source tree under
\* its default name, and inside the source tree under another name.
Placements ==
    {[source |-> <<"src">>, backup |-> <<"bak">>,
      manifest |-> <<MANIFEST_FILE_NAME>>],
     [source |-> <<"src">>, backup |-> <<"bak">>,
      manifest |-> <<"src", MANIFEST_FILE_NAME>>],
     [source |-> <<"src">>, backup |-> <<"bak">>,
      manifest |-> <<"src", "m.json">>]}

\* An entry as scan_and_backup writes it.
Entry(hash, time, path) ==
    PyDict(<<Item(<<"hash">>, PyStr(hash)),
             Item(<<"last_backup_time">>, PyStr(time)),
             Item(<<"backup_path">>, PyStr(path))>>)

\* Manifest files an external writer may leave behind: empty, blank, cut
\* short, not UTF-8, and JSON that is no mapping of paths to entries.
NonJsonTexts ==
    {<<LBRACE, NEWLINE, Quote(<<"a.txt">>), COLON>>,
     <<<<"backup">>, SPACE, <<"log">>>>}

DamagedTexts ==
    NonJsonTexts \cup
    {<<>>,
     <<SPACE, NEWLINE>>,
     <<BADBYTE>>,
     <<NULL>>,
     <<LBRACKET, RBRACKET>>,
     <<LBRACKET, NULL, RBRACKET>>,
     <<<<"1">>>>,
     <<Quote(<<"x">>)>>,
     <<LBRACE, Quote(<<"a.txt">>), COLON, SPACE, <<"1">>, RBRACE>>,
     <<LBRACE, Quote(<<"a.txt">>), COLON, SPACE, NULL, RBRACE>>,
     <<LBRACE, Quote(<<"a.txt">>), COLON, SPACE, LBRACE, RBRACE, RBRACE>>}

\* What a path holds in the file system fs: a file's content, or nothing.
FileState(fs, path) ==
    IF path \in DOMAIN fs THEN [present |-> TRUE, content |-> fs[path]]
    ELSE [present |-> FALSE, content |-> <<>>]

\* os.path.exists
exists(path) == path \in DOMAIN files \/ path \in dirs

\* The files and the subdirectories os.scandir(d) lists.
FilesIn(d) == {f \in DOMAIN files : dirname(f) = d}

SubdirsIn(d) == {x \in dirs : x # <<>> /\ dirname(x) = d}

(***************************************************************************)
(* calculate_file_hash                                                     *)
(***************************************************************************)
\* SHA-256 as an injective function of the bytes fed to it: the state is the
\* data so far and the digest a string that determines it.
sha256_update(state, data) == state \o data

hexdigest(state) == <<ToString(state)>>

\* The loop of f.read(chunk_size) until no data is left.
RECURSIVE ReadChunks(_, _)
ReadChunks(rest, state) ==
    IF rest = <<>> THEN state
    ELSE LET n == IF Len(rest) < chunk_size THEN Len(rest) ELSE chunk_size
         IN  ReadChunks(SubSeq(rest, n + 1, Len(rest)),
                        sha256_update(state, SubSeq(rest, 1, n)))

\* Mutant: only the first chunk is read.
calculate_file_hash_first_chunk(content) ==
    hexdigest(sha256_update(<<>>,
        SubSeq(content, 1,
               IF Len(content) < chunk_size THEN Len(content)
               ELSE chunk_size)))

calculate_file_hash(content) == hexdigest(ReadChunks(content, <<>>))

(***************************************************************************)
(* load_manifest, save_manifest, ensure_directory                          *)
(***************************************************************************)
Loaded(v, warned, exc) == [v |-> v, warned |-> warned, exc |-> exc]

\* Mutant: a decode error is swallowed without the warning.
load_manifest_silent(fs, manifest_path) ==
    IF manifest_path \notin DOMAIN fs THEN Loaded(PyDict(<<>>), FALSE, "")
    ELSE LET content == fs[manifest_path] IN
        IF BADBYTE \in Range(content)
            THEN Loaded(PyNone, FALSE, "UnicodeDecodeError")
        ELSE IF strip(content) = <<>> THEN Loaded(PyDict(<<>>), FALSE, "")
        ELSE LET pv == json_load(content) IN
            IF pv.ok THEN Loaded(pv.v, FALSE, "")
            ELSE Loaded(PyDict(<<>>), FALSE, "")

\* The mapping read from manifest_path in the file system fs, whether the
\* warning was printed, and the exception that escapes ("" for none).
load_manifest(fs, manifest_path) ==
    IF manifest_path \notin DOMAIN fs THEN Loaded(PyDict(<<>>), FALSE, "")
    ELSE LET content == fs[manifest_path] IN
        IF BADBYTE \in Range(content)
            THEN Loaded(PyNone, FALSE, "UnicodeDecodeError")
        ELSE IF strip(content) = <<>> THEN Loaded(PyDict(<<>>), FALSE, "")
        ELSE LET pv == json_load(content) IN
            IF pv.ok THEN Loaded(pv.v, FALSE, "")
            ELSE Loaded(PyDict(<<>>), TRUE, "")

\* Mutant: the entries already in the file are kept, only new keys are added.
save_manifest_keeps_existing(fs, manifest_path, manifest_data) ==
    LET old == load_manifest(fs, manifest_path).v
        merged ==
            IF old.t = "dict" /\ manifest_data.t = "dict"
            THEN PyDict(old.items \o
                    SelectSeq(manifest_data.items,
                              LAMBDA it : ~HasKey(old, it.k)))
            ELSE manifest_data
    IN  (manifest_path :> Dump(merged)) @@ fs

\* Mutant: the file is opened for appending.
save_manifest_appends(fs, manifest_path, manifest_data) ==
    (manifest_path :>
        (IF manifest_path \in DOMAIN fs THEN fs[manifest_path] ELSE <<>>)
            \o Dump(manifest_data)) @@ fs

\* The file system after save_manifest: the file holds the new text only.
save_manifest(fs, manifest_path, manifest_data) ==
    (manifest_path :> Dump(manifest_data)) @@ fs

\* The directories after ensure_directory(path).
ensure_directory(ds, path) == ds \cup Ancestors(path)

\* datetime.now().isoformat()
isoformat(t) == <<"T", ToString(t)>>

(***************************************************************************)
(* Local state of an invocation.                                           *)
(***************************************************************************)
\* A line of standard output: its text, the path and the number it shows.
Line(tag, path, n) == [tag |-> tag, path |-> path, n |-> n]

Frame0 ==
    [pc |-> "idle", verify |-> FALSE, exc |-> "", out |-> <<>>,
     manifest |-> PyNone, updated_manifest |-> PyNone,
     stack |-> <<>>, todo |-> {},
     source_file_path |-> <<>>, content |-> <<>>, file_hash |-> <<>>,
     previous_entry |-> PyNone, backup_exists |-> FALSE,
     backed_up_files |-> 0, skipped_files |-> 0, scanned |-> <<>>,
     items |-> <<>>, total_files |-> 0,
     mismatches |-> <<>>, missing_files |-> <<>>,
     run |-> 0, mfile0 |-> FileState(<<>>, <<>>)]

Stopped == {"idle", "done", "crashed", "killed"}

Running(p) == proc[p].pc \notin Stopped

Quiet == \A p \in DOMAIN proc : ~Running(p)

\* The process ends: its memory is gone, its output and the values its
\* report was printed from remain observable.
Exit(f, how, exc, lines) ==
    [Frame0 EXCEPT !.pc = how, !.exc = exc, !.verify = f.verify,
                   !.out = f.out \o lines, !.run = f.run,
                   !.backed_up_files = f.backed_up_files,
                   !.skipped_files = f.skipped_files,
                   !.scanned = f.scanned,
                   !.total_files = f.total_files,
                   !.mismatches = f.mismatches,
                   !.missing_files = f.missing_files]

\* Mutant: the exception is caught and the loop goes on with the next file.
Raise_caught(f, exc) == [f EXCEPT !.pc = "walk"]

\* An uncaught exception ends the process with a traceback.
Raise(f, exc) == Exit(f, "crashed", exc, <<>>)

\* History record of a completed backup run: what it loaded, scanned,
\* printed and saved, the file system it left (fs) and the manifest that
\* load_manifest reads back from it (persisted).
NoRun ==
    [valid |-> FALSE, run |-> 0, ext |-> 0, mfile0 |-> FileState(<<>>, <<>>),
     loaded |-> PyNone, saved |-> PyNone, scanned |-> <<>>, out |-> <<>>,
     backed_up_files |-> 0, skipped_files |-> 0, recovering |-> {},
     fs |-> <<>>, persisted |-> PyNone]

\* v[key] for a value v that is not None: the value, or the exception.
Subscript(v, key) ==
    IF v.t = "dict"
    THEN IF HasKey(v, key) THEN [exc |-> "", v |-> Lookup(v, key)]
         ELSE [exc |-> "KeyError", v |-> PyNone]
    ELSE [exc |-> "TypeError", v |-> PyNone]

\* v != s for a Python value v and a str s.
DiffersFromStr(v, s) == ~(v.t = "str" /\ v.s = s)

(***************************************************************************)
(* main                                                                    *)
(***************************************************************************)
\* Mutant: the test of lines 238-240 is left out.
main_unchecked(p, verify) ==
    /\ ~Running(p)
    /\ runs < budget.runs
    /\ runs' = runs + 1
    /\ proc' = [proc EXCEPT ![p] =
            [Frame0 EXCEPT
                !.pc = IF verify THEN "verify" ELSE "backup",
                !.verify = verify, !.run = runs + 1]]
    /\ UNCHANGED <<files, dirs, clock, args, budget, ext, lastDone, prevDone,
                   pending, reports>>

main(p, verify) ==
    /\ ~Running(p)
    /\ runs < budget.runs
    /\ runs' = runs + 1
    /\ proc' = [proc EXCEPT ![p] =
            IF ~exists(args.source)
            THEN [Frame0 EXCEPT
                    !.pc = "done", !.verify = verify, !.run = runs + 1,
                    !.out = <<Line("Source directory does not exists",
                                   args.source, 0)>>]
            ELSE [Frame0 EXCEPT
                    !.pc = IF verify THEN "verify" ELSE "backup",
                    !.verify = verify, !.run = runs + 1]]
    /\ UNCHANGED <<files, dirs, clock, args, budget, ext, lastDone, prevDone,
                   pending, reports>>

(***************************************************************************)
(* scan_and_backup                                                         *)
(***************************************************************************)
\* Lines 84-92: the backup directory, the manifest and its working copy.
scan_begin(p) ==
    LET f == proc[p]
        ld == load_manifest(files, args.manifest)
        warning == IF ld.warned
                   THEN <<Line("Warning: manifest.json is corrupted",
                               <<>>, 0)>>
                   ELSE <<>>
    IN  /\ f.pc = "backup"
        /\ dirs' = ensure_directory(dirs, args.backup)
        /\ proc' = [proc EXCEPT ![p] =
                IF ld.exc # "" THEN Raise(f, ld.exc)
                ELSE IF ld.v.t \notin {"dict", "list"}
                    THEN Raise(f, "AttributeError")
                ELSE [f EXCEPT !.pc = "walk",
                               !.out = warning,
                               !.mfile0 = FileState(files, args.manifest),
                               !.manifest = ld.v,
                               !.updated_manifest = ld.v,
                               !.stack = <<args.source>>]]
        /\ UNCHANGED <<files, clock, args, budget, runs, ext, lastDone,
                       prevDone, pending, reports>>

\* Line 94: os.walk lists the next directory, top down; a directory that
\* cannot be listed is passed over.
walk(p) ==
    LET f == proc[p]
        d == Head(f.stack)
    IN  /\ f.pc = "walk"
        /\ f.todo = {}
        /\ f.stack # <<>>
        /\ \E order \in Perms(IF d \in dirs THEN SubdirsIn(d) ELSE {}) :
            proc' = [proc EXCEPT ![p] =
                [f EXCEPT !.stack = order \o Tail(f.stack),
                          !.todo = IF d \in dirs THEN FilesIn(d) ELSE {}]]
        /\ UNCHANGED <<files, dirs, clock, args, budget, runs, ext, lastDone,
                       prevDone, pending, reports>>

\* History: the files a run has copied, remembered when it ends without
\* having saved its manifest.
Unsaved(f, after) ==
    IF after.pc = "crashed"
    THEN pending \cup {f.scanned[i].rel : i \in
                        {j \in 1..Len(f.scanned) : f.scanned[j].copied}}
    ELSE pending

\* Lines 95-109: the next file of the listing, in any order: the reserved
\* name is passed over, any other file is fingerprinted and looked up; a file
\* that is no longer there raises out of calculate_file_hash (line 18).
scan_file(p) ==
    LET f == proc[p]
    IN  /\ f.pc = "walk"
        /\ \E path \in f.todo :
            LET rel_path == relpath(path, args.source)
            IN  proc' = [proc EXCEPT ![p] =
                    IF basename(path) = MANIFEST_FILE_NAME
                        THEN [f EXCEPT !.todo = f.todo \ {path}]
                    ELSE IF path \notin DOMAIN files
                        THEN Raise(f, "FileNotFoundError")
                    ELSE IF f.manifest.t # "dict"
                        THEN Raise(f, "AttributeError")
                    ELSE [f EXCEPT
                            !.pc = "decide",
                            !.todo = f.todo \ {path},
                            !.source_file_path = path,
                            !.content = files[path],
                            !.file_hash = calculate_file_hash(files[path]),
                            !.previous_entry = DictGet(f.manifest, rel_path),
                            !.backup_exists =
                                exists(join(args.backup, rel_path))]]
        /\ pending' = Unsaved(f, proc'[p])
        /\ UNCHANGED <<files, dirs, clock, args, budget, runs, ext, lastDone,
                       prevDone, reports>>

\* Mutant: the stored entry itself is compared with the fingerprint, so every
\* recorded file looks changed.
NeedsBackup_entry_compared(previous_entry, file_hash, backup_exists) ==
    [exc |-> "", copy |-> TRUE]

\* Mutant: the existence of the backup copy is not consulted.
NeedsBackup_no_exists_check(previous_entry, file_hash, backup_exists) ==
    IF previous_entry = PyNone THEN [exc |-> "", copy |-> TRUE]
    ELSE LET h == Subscript(previous_entry, <<"hash">>)
         IN  IF h.exc # "" THEN [exc |-> h.exc, copy |-> FALSE]
             ELSE [exc |-> "", copy |-> DiffersFromStr(h.v, file_hash)]

\* Mutant: a recorded file is copied again only when its copy is gone.
NeedsBackup_exists_only(previous_entry, file_hash, backup_exists) ==
    [exc |-> "", copy |-> previous_entry = PyNone \/ ~backup_exists]

\* The condition of line 111, evaluated left to right: whether to copy, or
\* the exception the subscript raises.
NeedsBackup(previous_entry, file_hash, backup_exists) ==
    IF previous_entry = PyNone THEN [exc |-> "", copy |-> TRUE]
    ELSE LET h == Subscript(previous_entry, <<"hash">>)
         IN  IF h.exc # "" THEN [exc |-> h.exc, copy |-> FALSE]
             ELSE [exc |-> "",
                   copy |-> DiffersFromStr(h.v, file_hash) \/ ~backup_exists]

\* The record of a processed file kept for the history.
Scanned(rel_path, content, file_hash, backup_exists, copied) ==
    [rel |-> rel_path, content |-> content, hash |-> file_hash,
     backup_exists |-> backup_exists, copied |-> copied]

\* Lines 111-124: copy the file and record it, or skip it.  backup_file
\* (lines 60-72) creates the directory of the copy and copies the bytes the
\* source file holds now.
scan_decide(p) ==
    LET f == proc[p]
        rel_path == relpath(f.source_file_path, args.source)
        backup_file_path == join(args.backup, rel_path)
        need == NeedsBackup(f.previous_entry, f.file_hash, f.backup_exists)
        entry == Entry(f.file_hash, isoformat(clock), backup_file_path)
    IN  /\ f.pc = "decide"
        /\ IF need.exc # ""
           THEN /\ proc' = [proc EXCEPT ![p] = Raise(f, need.exc)]
                /\ UNCHANGED <<files, dirs, clock>>
           ELSE IF need.copy
           THEN /\ dirs' = ensure_directory(dirs, dirname(backup_file_path))
                /\ IF f.source_file_path \in DOMAIN files
                   THEN /\ files' = (backup_file_path :>
                                        files[f.source_file_path]) @@ files
                        /\ clock' = clock + 1
                        /\ proc' = [proc EXCEPT ![p] =
                            [f EXCEPT
                                !.pc = "walk",
                                !.updated_manifest =
                                    DictSet(f.updated_manifest, rel_path,
                                            entry),
                                !.backed_up_files = f.backed_up_files + 1,
                                !.scanned = Append(f.scanned,
                                    Scanned(rel_path, f.content,
                                            f.file_hash, f.backup_exists,
                                            TRUE)),
                                !.out = Append(f.out,
                                    Line("[BACKUP]", rel_path, 0))]]
                   ELSE /\ proc' = [proc EXCEPT ![p] =
                                        Raise(f, "FileNotFoundError")]
                        /\ UNCHANGED <<files, clock>>
           ELSE /\ proc' = [proc EXCEPT ![p] =
                    [f EXCEPT
                        !.pc = "walk",
                        !.skipped_files = f.skipped_files + 1,
                        !.scanned = Append(f.scanned,
                            Scanned(rel_path, f.content, f.file_hash,
                                    f.backup_exists, FALSE)),
                        !.out = Append(f.out, Line("[SKIP]", rel_path, 0))]]
                /\ UNCHANGED <<files, dirs, clock>>
        /\ pending' = Unsaved(f, proc'[p])
        /\ UNCHANGED <<args, budget, runs, ext, lastDone, prevDone, reports>>

\* Lines 126-135: the walk is over; the working copy replaces the manifest
\* file and the summary is printed.
scan_save(p) ==
    LET f == proc[p]
        summary ==
            <<Line("Source directory", args.source, 0),
              Line("Backup directory", args.backup, 0),
              Line("Total files scanned", <<>>,
                   f.backed_up_files + f.skipped_files),
              Line("Files backed up", <<>>, f.backed_up_files),
              Line("Files unchanged", <<>>, f.skipped_files)>>
    IN  /\ f.pc = "walk"
        /\ f.todo = {}
        /\ f.stack = <<>>
        /\ files' = save_manifest(files, args.manifest, f.updated_manifest)
        /\ proc' = [proc EXCEPT ![p] = Exit(f, "done", "", summary)]
        /\ lastDone' = [valid |-> TRUE, run |-> f.run, ext |-> ext,
                        mfile0 |-> f.mfile0, loaded |-> f.manifest,
                        saved |-> f.updated_manifest, scanned |-> f.scanned,
                        out |-> f.out \o summary,
                        backed_up_files |-> f.backed_up_files,
                        skipped_files |-> f.skipped_files,
                        recovering |-> pending, fs |-> files',
                        persisted |->
                            load_manifest(files', args.manifest).v]
        /\ prevDone' = lastDone
        /\ pending' = {}
        /\ UNCHANGED <<dirs, clock, args, budget, runs, ext, reports>>

(***************************************************************************)
(* verify_backup_integrity                                                 *)
(***************************************************************************)
\* Lines 143-152: the manifest, the empty case, the count and the iterator.
verify_begin(p) ==
    LET f == proc[p]
        ld == load_manifest(files, args.manifest)
        warning == IF ld.warned
                   THEN <<Line("Warning: manifest.json is corrupted",
                               <<>>, 0)>>
                   ELSE <<>>
    IN  /\ f.pc = "verify"
        /\ proc' = [proc EXCEPT ![p] =
                IF ld.exc # "" THEN Raise(f, ld.exc)
                ELSE IF ~Truthy(ld.v)
                    THEN Exit(f, "done", "", warning \o
                              <<Line("No Manifest Found. Run Backup first",
                                     <<>>, 0)>>)
                ELSE IF ld.v.t = "num" THEN Raise(f, "TypeError")
                ELSE IF ld.v.t # "dict" THEN Raise(f, "AttributeError")
                ELSE [f EXCEPT !.pc = "verify_loop",
                               !.out = warning,
                               !.mfile0 = FileState(files, args.manifest),
                               !.manifest = ld.v,
                               !.total_files = Len(ld.v.items),
                               !.items = ld.v.items]]
        /\ UNCHANGED <<files, dirs, clock, args, budget, runs, ext, lastDone,
                       prevDone, pending, reports>>

\* Mutant: the existence test is negated, so a missing copy falls through to
\* the comparison and a present one is listed as missing.
Classify_negated_exists(rel_path, meta) ==
    LET backup_file_path == join(args.backup, rel_path)
    IN  IF exists(backup_file_path) THEN "missing" ELSE "mismatch"

\* Mutant: the path of the source file, which line 153 computes and never
\* uses, is the one tested for existence.
Classify_checks_source(rel_path, meta) ==
    LET soruce_file_path == join(args.source, rel_path)
        backup_file_path == join(args.backup, rel_path)
        recorded == IF meta = PyNone
                    THEN [exc |-> "TypeError", v |-> PyNone]
                    ELSE Subscript(meta, <<"hash">>)
    IN  IF ~exists(soruce_file_path) THEN "missing"
        ELSE IF backup_file_path \notin DOMAIN files
            THEN "IsADirectoryError"
        ELSE IF recorded.exc # "" THEN recorded.exc
        ELSE IF DiffersFromStr(recorded.v,
                               calculate_file_hash(files[backup_file_path]))
            THEN "mismatch"
        ELSE "intact"

\* How lines 153-162 classify one entry: "missing", "mismatch", "intact",
\* or the exception raised.
Classify(rel_path, meta) ==
    LET backup_file_path == join(args.backup, rel_path)
        recorded == IF meta = PyNone
                    THEN [exc |-> "TypeError", v |-> PyNone]
                    ELSE Subscript(meta, <<"hash">>)
    IN  IF ~exists(backup_file_path) THEN "missing"
        ELSE IF backup_file_path \notin DOMAIN files
            THEN "IsADirectoryError"
        ELSE IF recorded.exc # "" THEN recorded.exc
        ELSE IF DiffersFromStr(recorded.v,
                               calculate_file_hash(files[backup_file_path]))
            THEN "mismatch"
        ELSE "intact"

\* Lines 152-162: the next entry of the manifest, in the manifest's order.
verify_entry(p) ==
    LET f == proc[p]
        rel_path == Head(f.items).k
        class == Classify(rel_path, Head(f.items).v)
    IN  /\ f.pc = "verify_loop"
        /\ f.items # <<>>
        /\ proc' = [proc EXCEPT ![p] =
                IF class = "missing"
                    THEN [f EXCEPT !.items = Tail(f.items),
                                   !.missing_files =
                                        Append(f.missing_files, rel_path)]
                ELSE IF class = "mismatch"
                    THEN [f EXCEPT !.items = Tail(f.items),
                                   !.mismatches =
                                        Append(f.mismatches, rel_path)]
                ELSE IF class = "intact"
                    THEN [f EXCEPT !.items = Tail(f.items)]
                ELSE Raise(f, class)]
        /\ UNCHANGED <<files, dirs, clock, args, budget, runs, ext, lastDone,
                       prevDone, pending, reports>>

\* Mutant: the verifier drops the missing entries from the manifest file.
verify_report_prunes(p) ==
    LET f == proc[p]
        kept == SelectSeq(f.manifest.items,
                          LAMBDA it : it.k \notin Range(f.missing_files))
    IN  /\ f.pc = "verify_loop"
        /\ f.items = <<>>
        /\ files' = save_manifest(files, args.manifest, PyDict(kept))
        /\ proc' = [proc EXCEPT ![p] = Exit(f, "done", "", <<>>)]
        /\ UNCHANGED <<dirs, clock, args, budget, runs, ext, lastDone,
                       prevDone, pending, reports>>

\* History: the numbers and paths of a report and the file system it was
\* printed over, appended to the last report before it.
Reports(earlier, f) ==
    (IF earlier = <<>> THEN <<>> ELSE <<Last(earlier)>>) \o
    <<[run |-> f.run, fs |-> files, total_files |-> f.total_files,
       missing_files |-> f.missing_files, mismatches |-> f.mismatches]>>

\* Lines 164-180: the report.
verify_report(p) ==
    LET f == proc[p]
        report ==
            <<Line("Total files in manifest", <<>>, f.total_files),
              Line("Missing Files", <<>>, Len(f.missing_files)),
              Line("Hash Mismatches", <<>>, Len(f.mismatches))>>
            \o [i \in 1..Len(f.missing_files) |->
                    Line("Missing", f.missing_files[i], 0)]
            \o [i \in 1..Len(f.mismatches) |->
                    Line("Mismatch", f.mismatches[i], 0)]
            \o (IF f.missing_files = <<>> /\ f.mismatches = <<>>
                THEN <<Line("All backed up files passed integrity check.",
                            <<>>, 0)>>
                ELSE <<>>)
    IN  /\ f.pc = "verify_loop"
        /\ f.items = <<>>
        /\ proc' = [proc EXCEPT ![p] = Exit(f, "done", "", report)]
        /\ reports' = Reports(reports, f)
        /\ UNCHANGED <<files, dirs, clock, args, budget, runs, ext, lastDone,
                       prevDone, pending>>

(***************************************************************************)
(* The environment: other programs and the user.                           *)
(***************************************************************************)
\* What may be written from outside: a user file of the source tree or an
\* existing file of the backup tree (any content), or the manifest file (a
\* damaged text).
Writable ==
    {<<join(args.source, rel), c>> : rel \in UserFiles, c \in Contents}
    \cup {<<path, c>> : path \in {q \in DOMAIN files :
                                     IsPrefix(args.backup, q)},
                        c \in Contents}
    \cup {<<args.manifest, text>> : text \in DamagedTexts}

ExternalWrite(path, content) ==
    /\ ext < budget.ext
    /\ <<path, content>> \in Writable
    /\ path \in DOMAIN files => files[path] # content
    /\ ext' = ext + 1
    /\ files' = (path :> content) @@ files
    /\ dirs' = dirs \cup Ancestors(dirname(path))
    /\ UNCHANGED <<clock, args, budget, proc, runs, lastDone, prevDone,
                   pending, reports>>

ExternalDelete(path) ==
    /\ ext < budget.ext
    /\ path \in DOMAIN files
    /\ ext' = ext + 1
    /\ files' = [q \in DOMAIN files \ {path} |-> files[q]]
    /\ UNCHANGED <<dirs, clock, args, budget, proc, runs, lastDone, prevDone,
                   pending, reports>>

\* The process is killed: nothing of it remains.
Interrupt(p) ==
    /\ ext < budget.ext
    /\ Running(p)
    /\ ext' = ext + 1
    /\ proc' = [proc EXCEPT ![p] = [Frame0 EXCEPT !.pc = "killed",
                                                  !.verify = proc[p].verify,
                                                  !.run = proc[p].run]]
    /\ pending' = pending \cup
            {proc[p].scanned[i].rel : i \in
                {j \in 1..Len(proc[p].scanned) : proc[p].scanned[j].copied}}
    /\ UNCHANGED <<files, dirs, clock, args, budget, runs, lastDone, prevDone,
                   reports>>

(***************************************************************************)
(* The specification: invocations one at a time, external events between   *)
(* them, and kills at any point of a run.                                  *)
(***************************************************************************)
\* The source trees the tool is first run on: one file, or a file and a
\* subdirectory with a file.
SourceTrees ==
    {(<<"src", "a.txt">> :> HELLO),
     (<<"src", "a.txt">> :> HELLO) @@ (<<"src", "b", "c.txt">> :> WORLD)}

\* The state before the first invocation: the user's files, no backup
\* directory, no manifest file.
Start ==
    /\ args \in Placements
    /\ files \in SourceTrees
    /\ dirs = UNION {Ancestors(dirname(path)) : path \in DOMAIN files}
    /\ clock = 0
    /\ proc = [p \in Procs |-> Frame0]
    /\ runs = 0
    /\ ext = 0
    /\ lastDone = NoRun
    /\ prevDone = NoRun
    /\ pending = {}
    /\ reports = <<>>

Init == Start /\ budget = [runs |-> MaxRuns, ext |-> MaxExt]

Next ==
    \/ \E p \in DOMAIN proc, verify \in BOOLEAN : main(p, verify)
    \/ \E p \in DOMAIN proc : scan_begin(p)
    \/ \E p \in DOMAIN proc : walk(p)
    \/ \E p \in DOMAIN proc : scan_file(p)
    \/ \E p \in DOMAIN proc : scan_decide(p)
    \/ \E p \in DOMAIN proc : scan_save(p)
    \/ \E p \in DOMAIN proc : verify_begin(p)
    \/ \E p \in DOMAIN proc : verify_entry(p)
    \/ \E p \in DOMAIN proc : verify_report(p)
    \/ \E p \in DOMAIN proc : Interrupt(p)
    \/ \E w \in Writable : Quiet /\ ExternalWrite(w[1], w[2])
    \/ \E path \in DOMAIN files : Quiet /\ ExternalDelete(path)

Spec == Init /\ [][Next]_vars

\* The same program over behaviours of one more invocation.
InitLong == Start /\ budget = [runs |-> LongRuns, ext |-> MaxExt]

SpecLong == InitLong /\ [][Next]_vars

(***************************************************************************)
(* Properties.                                                             *)
(*                                                                         *)
(* The histories lastDone and prevDone are two backup runs that completed  *)
(* one after the other; no run is in progress while an external event      *)
(* happens, so what a run saw is what its history records.                 *)
(***************************************************************************)
\* The SHA-256 digest of a whole content, as the specification defines the
\* fingerprint.
SHA256(content) == hexdigest(sha256_update(<<>>, content))

Idx(run) == 1..Len(run.scanned)

\* The manifest a completed run left in its file, read back.
Persisted(run) == run.persisted

\* The run `second` loaded the very file the run `first` persisted.
Continues(second, first) ==
    /\ second.valid
    /\ first.valid
    /\ second.mfile0 = FileState(first.fs, args.manifest)

\* The recorded hash of rel in manifest m, None when m has no such entry.
EntryField(m, rel, field) ==
    IF m.t = "dict" /\ HasKey(m, rel) /\ Lookup(m, rel).t = "dict"
        /\ HasKey(Lookup(m, rel), field)
    THEN Lookup(Lookup(m, rel), field)
    ELSE PyNone

Printed(run, tag, rel) == Line(tag, rel, 0) \in Range(run.out)

\* The case of C1: a file scanned by both runs with the same bytes, whose
\* backup copy exists at the second run.
C1_Case(i, j) ==
    /\ lastDone.scanned[i].rel = prevDone.scanned[j].rel
    /\ lastDone.scanned[i].content = prevDone.scanned[j].content
    /\ lastDone.scanned[i].backup_exists

\* C1: of two consecutive backup runs (the second loads the manifest the
\* first persisted), the second skips every file whose bytes are the same in
\* both runs and whose backup copy exists, and the entry it persists for the
\* file is the entry the first run persisted, last_backup_time included.
C1_UnchangedFileSkipped ==
    Continues(lastDone, prevDone) =>
        \A i \in Idx(lastDone), j \in Idx(prevDone) :
            C1_Case(i, j) =>
                LET rel == lastDone.scanned[i].rel
                IN  /\ ~lastDone.scanned[i].copied
                    /\ Printed(lastDone, "[SKIP]", rel)
                    /\ ~Printed(lastDone, "[BACKUP]", rel)
                    /\ HasKey(Persisted(lastDone), rel)
                    /\ Lookup(Persisted(lastDone), rel)
                        = Lookup(Persisted(prevDone), rel)
                    /\ EntryField(Persisted(lastDone), rel,
                                  <<"last_backup_time">>)
                        = EntryField(Persisted(prevDone), rel,
                                     <<"last_backup_time">>)

C1_Witness ==
    /\ Continues(lastDone, prevDone)
    /\ \E i \in Idx(lastDone), j \in Idx(prevDone) :
        /\ C1_Case(i, j)
        /\ ~lastDone.scanned[i].copied
        /\ EntryField(Persisted(lastDone), lastDone.scanned[i].rel,
                      <<"last_backup_time">>) # PyNone

\* The case of C2: a file scanned by both runs whose bytes differ.
C2_Case(i, j) ==
    /\ lastDone.scanned[i].rel = prevDone.scanned[j].rel
    /\ lastDone.scanned[i].content # prevDone.scanned[j].content

\* C2: of two consecutive backup runs, the second copies every file whose
\* content differs between them to backupRoot/R, reports it as backed up,
\* and persists for it an entry whose hash is the SHA-256 digest of the new
\* content and whose backup_path is backupRoot/R.
C2_ChangedFileBackedUp ==
    Continues(lastDone, prevDone) =>
        \A i \in Idx(lastDone), j \in Idx(prevDone) :
            C2_Case(i, j) =>
                LET rel == lastDone.scanned[i].rel
                    new == lastDone.scanned[i].content
                    copy == join(args.backup, rel)
                IN  /\ lastDone.scanned[i].copied
                    /\ Printed(lastDone, "[BACKUP]", rel)
                    /\ copy \in DOMAIN lastDone.fs
                    /\ lastDone.fs[copy] = new
                    /\ EntryField(Persisted(lastDone), rel, <<"hash">>)
                        = PyStr(SHA256(new))
                    /\ EntryField(Persisted(lastDone), rel, <<"backup_path">>)
                        = PyStr(copy)

C2_Witness ==
    /\ Continues(lastDone, prevDone)
    /\ \E i \in Idx(lastDone), j \in Idx(prevDone) :
        /\ C2_Case(i, j)
        /\ lastDone.scanned[i].copied
        /\ Len(lastDone.scanned[i].content) > chunk_size

\* The case of C3: the manifest the run loaded records the file with the
\* fingerprint it still has, and the backup copy is gone.
C3_Case(i) ==
    /\ ~lastDone.scanned[i].backup_exists
    /\ EntryField(lastDone.loaded, lastDone.scanned[i].rel, <<"hash">>)
        = PyStr(SHA256(lastDone.scanned[i].content))

\* C3: a backup run copies again every file whose backup copy is gone though
\* the manifest records the file's present fingerprint; it reports the file
\* as backed up and backupRoot/R exists again after the run.
C3_SelfHealing ==
    lastDone.valid =>
        \A i \in Idx(lastDone) :
            C3_Case(i) =>
                LET rel == lastDone.scanned[i].rel
                    copy == join(args.backup, rel)
                IN  /\ lastDone.scanned[i].copied
                    /\ Printed(lastDone, "[BACKUP]", rel)
                    /\ lastDone.backed_up_files >= 1
                    /\ copy \in DOMAIN lastDone.fs
                    /\ lastDone.fs[copy] = lastDone.scanned[i].content

C3_Witness ==
    /\ lastDone.valid
    /\ \E i \in Idx(lastDone) :
        /\ C3_Case(i)
        /\ lastDone.scanned[i].copied
        /\ join(args.backup, lastDone.scanned[i].rel) \in DOMAIN lastDone.fs

\* C4: the second of two backup runs in a row, with no external event
\* between them, copies no file: it reports zero files backed up and skips
\* every file it scans, wherever the manifest file is placed.
C4_Idempotent ==
    (/\ lastDone.valid
     /\ prevDone.valid
     /\ lastDone.run = prevDone.run + 1
     /\ lastDone.ext = prevDone.ext) =>
        /\ lastDone.backed_up_files = 0
        /\ \A i \in Idx(lastDone) : ~lastDone.scanned[i].copied
        /\ Line("Files backed up", <<>>, 0) \in Range(lastDone.out)

\* The case of C5: verify has classified every entry of the manifest.
C5_Case(p) == proc[p].pc = "verify_loop" /\ proc[p].items = <<>>

\* The process printed the verify report.
Reported(f) ==
    f.verify /\ \E i \in 1..Len(f.out) : f.out[i].tag = "Total files in manifest"

\* C5: when verify has gone through the manifest, the missing list holds
\* exactly the keys whose backupRoot/R does not exist, the mismatched list
\* exactly the keys whose backupRoot/R exists with a SHA-256 digest other
\* than the recorded hash, neither list repeats a key, the lists are
\* disjoint, and the total is the number of keys; the report prints these
\* numbers and paths.  (One entry whose copy was deleted: one missing path,
\* no mismatch.)
C5_VerifyClassifies ==
    \A p \in DOMAIN proc :
        LET f == proc[p]
            missing == Range(f.missing_files)
            mismatched == Range(f.mismatches)
            copy(k) == join(args.backup, k)
        IN  /\ C5_Case(p) =>
                /\ missing = {k \in Keys(f.manifest) : ~exists(copy(k))}
                /\ mismatched =
                    {k \in Keys(f.manifest) :
                        /\ copy(k) \in DOMAIN files
                        /\ EntryField(f.manifest, k, <<"hash">>)
                            # PyStr(SHA256(files[copy(k)]))}
                /\ missing \cap mismatched = {}
                /\ Cardinality(missing) = Len(f.missing_files)
                /\ Cardinality(mismatched) = Len(f.mismatches)
                /\ f.total_files = Cardinality(Keys(f.manifest))
            /\ Reported(f) =>
                /\ Line("Total files in manifest", <<>>, f.total_files)
                    \in Range(f.out)
                /\ Line("Missing Files", <<>>, Len(f.missing_files))
                    \in Range(f.out)
                /\ Line("Hash Mismatches", <<>>, Len(f.mismatches))
                    \in Range(f.out)
                /\ \A k \in missing : Line("Missing", k, 0) \in Range(f.out)
                /\ \A k \in mismatched :
                        Line("Mismatch", k, 0) \in Range(f.out)

C5_Witness ==
    \E p \in DOMAIN proc :
        /\ C5_Case(p)
        /\ Len(proc[p].manifest.items) = 1
        /\ proc[p].total_files = 1
        /\ Len(proc[p].missing_files) = 1
        /\ proc[p].mismatches = <<>>
        /\ lastDone.valid
        /\ join(args.backup, proc[p].missing_files[1]) \in DOMAIN lastDone.fs

\* A step of a verify run of process p, its start included.
C6_VerifyStep(p) ==
    \/ proc[p].pc \in {"verify", "verify_loop"} /\ proc'[p] # proc[p]
    \/ proc[p].pc \notin {"verify", "verify_loop"} /\ proc'[p].pc = "verify"

\* C6: no step of a verify run changes a file or a directory: the manifest
\* file, the backup tree and the source tree stay as they were when the run
\* started.
C6_VerifyPureRead ==
    [][\A p \in DOMAIN proc :
            C6_VerifyStep(p) => files' = files /\ dirs' = dirs]_vars

C6_Witness ==
    \E p \in DOMAIN proc :
        /\ proc[p].pc = "done"
        /\ Reported(proc[p])
        /\ proc[p].missing_files # <<>>

\* A manifest file that holds a mapping of paths to entries with the three
\* recorded fields.
IsEntry(v) ==
    /\ v.t = "dict"
    /\ Keys(v) = {<<"hash">>, <<"last_backup_time">>, <<"backup_path">>}
    /\ \A i \in 1..Len(v.items) : v.items[i].v.t = "str"

WellFormed(state) ==
    /\ state.present
    /\ BADBYTE \notin Range(state.content)
    /\ json_load(state.content).ok
    /\ json_load(state.content).v.t = "dict"
    /\ \A i \in 1..Len(json_load(state.content).v.items) :
            IsEntry(json_load(state.content).v.items[i].v)

\* C7: whatever the manifest file holds, no run ends in an exception other
\* than a per-file I/O error: a backup run whose manifest file is not a
\* well-formed manifest goes on with an empty manifest, and a verify run
\* goes through the entries of a well-formed manifest only.
C7_LoadNeverCrashes ==
    \A p \in DOMAIN proc :
        LET f == proc[p]
        IN  /\ f.pc = "crashed" => f.exc = "FileNotFoundError"
            /\ (f.pc \in {"walk", "decide"} /\ ~WellFormed(f.mfile0)) =>
                    f.manifest = PyDict(<<>>)
            /\ f.pc = "verify_loop" => WellFormed(f.mfile0)

\* The case of C9: the run found a manifest file that is text but not JSON.
C9_Case == lastDone.valid /\ lastDone.mfile0.present
            /\ lastDone.mfile0.content \in NonJsonTexts

\* C9: a backup run that finds non-JSON text in the manifest file prints the
\* warning, copies every file it scans and reports it as backed up, whether
\* or not a backup copy exists, and persists a manifest whose entries are
\* exactly those of the files it scanned.
C9_CorruptManifestAllNew ==
    C9_Case =>
        /\ lastDone.out # <<>>
        /\ lastDone.out[1].tag = "Warning: manifest.json is corrupted"
        /\ lastDone.loaded = PyDict(<<>>)
        /\ \A i \in Idx(lastDone) :
                /\ lastDone.scanned[i].copied
                /\ Printed(lastDone, "[BACKUP]", lastDone.scanned[i].rel)
        /\ lastDone.skipped_files = 0
        /\ lastDone.backed_up_files = Len(lastDone.scanned)
        /\ Keys(Persisted(lastDone))
            = {lastDone.scanned[i].rel : i \in Idx(lastDone)}
        /\ \A i \in Idx(lastDone) :
                EntryField(Persisted(lastDone), lastDone.scanned[i].rel,
                           <<"hash">>)
                    = PyStr(SHA256(lastDone.scanned[i].content))

\* A file is copied though the previous run left an identical copy and only
\* the manifest file was touched since.
C9_Witness ==
    /\ C9_Case
    /\ prevDone.valid
    /\ lastDone.ext = prevDone.ext + 1
    /\ \E i \in Idx(lastDone) :
        LET copy == join(args.backup, lastDone.scanned[i].rel)
        IN  /\ lastDone.scanned[i].backup_exists
            /\ lastDone.scanned[i].copied
            /\ copy \in DOMAIN prevDone.fs
            /\ prevDone.fs[copy] = lastDone.scanned[i].content

\* C10: (a) until a backup run saves, the manifest file is the one the run
\* loaded, so a run killed after any number of copies leaves it as it was;
\* (b) the next complete run copies again every file that a killed run
\* copied and that the manifest does not record with its fingerprint; and
\* (c) after it the persisted manifest records every scanned file with the
\* fingerprint the file then has.
C10_RecoveryAfterInterruption ==
    /\ \A p \in DOMAIN proc :
            proc[p].pc \in {"walk", "decide"} =>
                FileState(files, args.manifest) = proc[p].mfile0
    /\ (lastDone.valid /\ lastDone.recovering # {}) =>
            \A i \in Idx(lastDone) :
                LET rel == lastDone.scanned[i].rel
                    source == join(args.source, rel)
                IN  /\ (/\ rel \in lastDone.recovering
                        /\ EntryField(lastDone.loaded, rel, <<"hash">>)
                            # PyStr(SHA256(lastDone.scanned[i].content)))
                            => lastDone.scanned[i].copied
                    /\ source \in DOMAIN lastDone.fs
                    /\ EntryField(Persisted(lastDone), rel, <<"hash">>)
                        = PyStr(SHA256(lastDone.fs[source]))

(***************************************************************************)
(* The manifest store alone: save_manifest of any well-formed manifest     *)
(* over any earlier file, then load_manifest.                              *)
(***************************************************************************)
Entries(rel) ==
    {Entry(calculate_file_hash(c), isoformat(t), join(<<"bak">>, rel)) :
        c \in {HELLO, WORLD}, t \in 0..1}

WellFormedManifests ==
    {PyDict(<<>>)}
    \cup UNION {{PyDict(<<Item(k, e)>>) : e \in Entries(k)} : k \in UserFiles}
    \cup {PyDict(<<Item(<<"b", "c.txt">>, e1), Item(<<"a.txt">>, e2)>>) :
            e1 \in Entries(<<"b", "c.txt">>), e2 \in Entries(<<"a.txt">>)}

EarlierTexts ==
    DamagedTexts \cup {Dump(m) : m \in {PyDict(<<>>)} \cup
        {PyDict(<<Item(<<"old.txt">>, e)>>) : e \in Entries(<<"old.txt">>)}}

InitStore ==
    /\ args \in Placements
    /\ files \in {<<>>} \cup {(args.manifest :> text) : text \in EarlierTexts}
    /\ dirs = {<<>>, <<"src">>}
    /\ clock = 0
    /\ budget = [runs |-> 0, ext |-> 0]
    /\ proc \in [Procs -> {[Frame0 EXCEPT !.pc = "store",
                                          !.updated_manifest = m] :
                            m \in WellFormedManifests}]
    /\ runs = 0
    /\ ext = 0
    /\ lastDone = NoRun
    /\ prevDone = NoRun
    /\ pending = {}
    /\ reports = <<>>

\* save(path, M)
store_save(p) ==
    /\ proc[p].pc = "store"
    /\ files' = save_manifest(files, args.manifest, proc[p].updated_manifest)
    /\ proc' = [proc EXCEPT ![p].pc = "stored"]
    /\ UNCHANGED <<dirs, clock, args, budget, runs, ext, lastDone, prevDone,
                   pending, reports>>

\* load(path)
store_load(p) ==
    LET ld == load_manifest(files, args.manifest)
    IN  /\ proc[p].pc = "stored"
        /\ proc' = [proc EXCEPT ![p] =
                [@ EXCEPT !.pc = "loaded", !.manifest = ld.v, !.exc = ld.exc,
                          !.out = IF ld.warned
                                  THEN <<Line("Warning: manifest.json is corrupted",
                                              <<>>, 0)>>
                                  ELSE <<>>]]
        /\ UNCHANGED <<files, dirs, clock, args, budget, runs, ext, lastDone,
                       prevDone, pending, reports>>

NextStore ==
    \/ \E p \in DOMAIN proc : store_save(p)
    \/ \E p \in DOMAIN proc : store_load(p)

SpecStore == InitStore /\ [][NextStore]_vars

\* C8: load after save(M) returns a mapping equal to M, without warning or
\* exception, for every well-formed M, the empty one included, and the file
\* holds the text of M alone whatever it held before.
C8_RoundTrip ==
    \A p \in DOMAIN proc :
        /\ proc[p].pc \in {"stored", "loaded"} =>
                /\ args.manifest \in DOMAIN files
                /\ files[args.manifest] = Dump(proc[p].updated_manifest)
        /\ proc[p].pc = "loaded" =>
                /\ proc[p].exc = ""
                /\ proc[p].out = <<>>
                /\ PyEq(proc[p].manifest, proc[p].updated_manifest)
                /\ proc[p].manifest.t = "dict"
                /\ \A k \in Keys(proc[p].updated_manifest) :
                        /\ IsEntry(Lookup(proc[p].manifest, k))
                        /\ Lookup(proc[p].manifest, k)
                            = Lookup(proc[p].updated_manifest, k)

C8_Witness ==
    \E p \in DOMAIN proc :
        /\ proc[p].pc = "loaded"
        /\ Len(proc[p].updated_manifest.items) = 2
        /\ PyEq(proc[p].manifest, proc[p].updated_manifest)

\* C13: when the manifest file lives inside the source directory, under its
\* default name or under the name given with --manifest, no backup run
\* scans it, no copy of it is in the backup tree, and no manifest records it.
C13_ManifestNeverBackedUp ==
    IsPrefix(args.source, args.manifest) =>
        LET rel == relpath(args.manifest, args.source)
        IN  /\ \A p \in DOMAIN proc :
                \A i \in 1..Len(proc[p].scanned) :
                    proc[p].scanned[i].rel # rel
            /\ join(args.backup, rel) \notin DOMAIN files
            /\ lastDone.valid => ~HasKey(Persisted(lastDone), rel)

(***************************************************************************)
(* Two invocations at once: nothing in main, load_manifest or              *)
(* save_manifest keeps a second process from running on the same paths.    *)
(***************************************************************************)
RaceProcs == {1, 2}

InitRace ==
    /\ args \in Placements
    /\ files \in SourceTrees
    /\ dirs = UNION {Ancestors(dirname(path)) : path \in DOMAIN files}
    /\ clock = 0
    /\ budget = [runs |-> MaxRuns, ext |-> MaxExt]
    /\ proc = [p \in RaceProcs |-> Frame0]
    /\ runs = 0
    /\ ext = 0
    /\ lastDone = NoRun
    /\ prevDone = NoRun
    /\ pending = {}
    /\ reports = <<>>

SpecRace == InitRace /\ [][Next]_vars

\* The file rel was copied, and its entry written, by the run.
CopiedBy(run, rel) ==
    \E i \in Idx(run) : run.scanned[i].rel = rel /\ run.scanned[i].copied

\* The later saver was already past its load when the first saver saved.
Overlapped(second, first) ==
    /\ second.valid
    /\ first.valid
    /\ second.mfile0 = first.mfile0
    /\ second.mfile0 # FileState(first.fs, args.manifest)

\* C11: the manifest file after a save is the working copy of the run that
\* saved, whatever another run saved before: an entry the first saver added
\* or updated, and that the later saver had not loaded, is in the file
\* afterwards only as the later saver's own entry for that file, and is gone
\* when the later saver wrote none.
C11_LastWriterWins ==
    lastDone.valid =>
        /\ Persisted(lastDone) = lastDone.saved
        /\ prevDone.valid =>
            \A k \in Keys(prevDone.saved) :
                Lookup(prevDone.saved, k) # DictGet(lastDone.loaded, k) =>
                    /\ DictGet(Persisted(lastDone), k)
                        = DictGet(lastDone.saved, k)
                    /\ ~CopiedBy(lastDone, k) =>
                        DictGet(Persisted(lastDone), k)
                            = DictGet(lastDone.loaded, k)

\* Two overlapping runs saved one after the other, and an entry the first
\* wrote is not in the manifest file the second left.
C11_Witness ==
    /\ Overlapped(lastDone, prevDone)
    /\ \E k \in Keys(prevDone.saved) :
        /\ CopiedBy(prevDone, k)
        /\ Lookup(prevDone.saved, k) # DictGet(Persisted(lastDone), k)

(***************************************************************************)
(* The tool run on a source directory that does not exist: never created,  *)
(* or removed after an earlier backup run left a backup tree and a         *)
(* manifest file behind.                                                   *)
(***************************************************************************)
\* External events in a behaviour of SpecAbsent: the source directory is
\* created, and one event more.
AbsentExt == 2

\* What a backup run of src/a.txt leaves when src is removed afterwards.
LeftBehind ==
    (<<"bak", "a.txt">> :> HELLO) @@
    (<<MANIFEST_FILE_NAME>> :>
        Dump(PyDict(<<Item(<<"a.txt">>,
                           Entry(calculate_file_hash(HELLO), isoformat(0),
                                 <<"bak", "a.txt">>))>>)))

InitAbsent ==
    /\ args \in Placements
    /\ files \in {<<>>} \cup
                 (IF IsPrefix(args.source, args.manifest) THEN {}
                  ELSE {LeftBehind})
    /\ dirs = UNION {Ancestors(dirname(path)) : path \in DOMAIN files}
                \cup {<<>>}
    /\ clock = IF files = <<>> THEN 0 ELSE 1
    /\ budget = [runs |-> MaxRuns, ext |-> AbsentExt]
    /\ proc = [p \in Procs |-> Frame0]
    /\ runs = 0
    /\ ext = 0
    /\ lastDone = NoRun
    /\ prevDone = NoRun
    /\ pending = {}
    /\ reports = <<>>

SpecAbsent == InitAbsent /\ [][Next]_vars

\* The only output of the process is the error message of main.
SourceErrorOnly(f) ==
    f.out = <<Line("Source directory does not exists", args.source, 0)>>

\* C12: an invocation, in either mode, while the source directory does not
\* exist prints the error and ends at once, without having created the
\* backup directory, copied a file, or created or changed the manifest file:
\* no file and no directory changes, and the process is not left running.
C12_NoSourceNoAction ==
    [][(~exists(args.source) /\ runs' # runs) =>
            /\ files' = files
            /\ dirs' = dirs
            /\ \E p \in DOMAIN proc :
                /\ proc'[p].run = runs'
                /\ proc'[p].pc = "done"
                /\ SourceErrorOnly(proc'[p])
                /\ ~exists(args.backup) => args.backup \notin dirs']_vars

\* A backup invocation ended with the error: there is neither a source nor a
\* backup directory, and no manifest file.
C12_Witness ==
    \E p \in DOMAIN proc :
        /\ proc[p].pc = "done"
        /\ ~proc[p].verify
        /\ SourceErrorOnly(proc[p])
        /\ ~exists(args.source)
        /\ ~exists(args.backup)
        /\ ~exists(args.manifest)


(***************************************************************************)
(* Verification after a backup: the behaviours begin in the state a first  *)
(* backup run of the source tree leaves.                                   *)
(***************************************************************************)
\* The files after the first backup run of a source tree: the tree, a copy
\* of every file under the backup directory, and the manifest with one entry
\* per file in the order of the walk (the files of a directory before its
\* subdirectories), stamped with the clock of its copy.
BackedUp(tree, a) ==
    LET rels == IF <<"src", "b", "c.txt">> \in DOMAIN tree
                THEN <<<<"a.txt">>, <<"b", "c.txt">>>>
                ELSE <<<<"a.txt">>>>
        entry(i) == Item(rels[i],
                         Entry(calculate_file_hash(tree[join(a.source, rels[i])]),
                               isoformat(i - 1), join(a.backup, rels[i])))
    IN  (a.manifest :> Dump(PyDict([i \in 1..Len(rels) |-> entry(i)]))) @@
        [q \in {join(a.backup, rels[i]) : i \in 1..Len(rels)} |->
            tree[join(a.source, relpath(q, a.backup))]] @@
        tree

InitBackedUp ==
    /\ args \in Placements
    /\ \E tree \in SourceTrees :
        /\ files = BackedUp(tree, args)
        /\ clock = Cardinality(DOMAIN tree)
    /\ dirs = UNION {Ancestors(dirname(path)) : path \in DOMAIN files}
    /\ budget = [runs |-> MaxRuns, ext |-> MaxExt]
    /\ proc = [p \in Procs |-> Frame0]
    /\ runs = 0
    /\ ext = 0
    /\ lastDone = NoRun
    /\ prevDone = NoRun
    /\ pending = {}
    /\ reports = <<>>

SpecBackedUp == InitBackedUp /\ [][Next]_vars

\* What a verify run is specified to depend on: the manifest file and the
\* files under the backup directory.
Observed(fs) ==
    [q \in {r \in DOMAIN fs : r = args.manifest \/ IsPrefix(args.backup, r)}
        |-> fs[q]]

\* C14: the report of a verify run depends on the manifest and the backup
\* tree only: two verify runs that reported over file systems with the same
\* manifest file and the same backup tree, whatever the source trees, report
\* the same total, the same missing paths and the same mismatched paths.
C14_VerifyIgnoresSource ==
    (Len(reports) = 2 /\ Observed(reports[1].fs) = Observed(reports[2].fs)) =>
        /\ reports[1].total_files = reports[2].total_files
        /\ reports[1].missing_files = reports[2].missing_files
        /\ reports[1].mismatches = reports[2].mismatches

\* Two verify runs reported on a non-empty manifest, and between them a
\* source file was changed, deleted or added.
C14_Witness ==
    /\ Len(reports) = 2
    /\ Observed(reports[1].fs) = Observed(reports[2].fs)
    /\ reports[1].fs # reports[2].fs
    /\ reports[2].total_files > 0

(***************************************************************************)
(* Other programs at work during a run: the files change between any two   *)
(* steps of an invocation.                                                 *)
(***************************************************************************)
NextOpen ==
    \/ \E p \in DOMAIN proc, verify \in BOOLEAN : main(p, verify)
    \/ \E p \in DOMAIN proc : scan_begin(p)
    \/ \E p \in DOMAIN proc : walk(p)
    \/ \E p \in DOMAIN proc : scan_file(p)
    \/ \E p \in DOMAIN proc : scan_decide(p)
    \/ \E p \in DOMAIN proc : scan_save(p)
    \/ \E p \in DOMAIN proc : verify_begin(p)
    \/ \E p \in DOMAIN proc : verify_entry(p)
    \/ \E p \in DOMAIN proc : verify_report(p)
    \/ \E p \in DOMAIN proc : Interrupt(p)
    \/ \E w \in Writable : ExternalWrite(w[1], w[2])
    \/ \E path \in DOMAIN files : ExternalDelete(path)

SpecOpen == InitLong /\ [][NextOpen]_vars

\* A step of process p itself (not its start, not its kill).
OwnStep(p) ==
    /\ Running(p)
    /\ proc'[p] # proc[p]
    /\ proc'[p].pc # "killed"

\* Process p, in a backup run, takes up a listed file that is no longer
\* there (whichever file of the listing it takes up next, none being the
\* reserved name and none being there any more), or goes on to copy a file
\* that has disappeared since it was fingerprinted.
IOErrorStep(p) ==
    /\ OwnStep(p)
    /\ \/ /\ proc[p].pc = "walk"
          /\ proc[p].todo # {}
          /\ \A path \in proc[p].todo :
                /\ basename(path) # MANIFEST_FILE_NAME
                /\ path \notin DOMAIN files
       \/ /\ proc[p].pc = "decide"
          /\ proc[p].source_file_path \notin DOMAIN files
          /\ NeedsBackup(proc[p].previous_entry, proc[p].file_hash,
                         proc[p].backup_exists).copy

\* At an I/O error the run ends with the exception; no file changes (the
\* copies made so far stay) and no run is recorded as completed.
C15_Halts ==
    \A p \in DOMAIN proc :
        IOErrorStep(p) =>
            /\ proc'[p].pc = "crashed"
            /\ proc'[p].exc = "FileNotFoundError"
            /\ files' = files
            /\ lastDone' = lastDone
            /\ pending' = pending \cup
                {proc[p].scanned[i].rel : i \in
                    {j \in 1..Len(proc[p].scanned) : proc[p].scanned[j].copied}}

\* A process that has ended takes no further step, and no step of a backup
\* process except the completing save changes the manifest file.
C15_NothingAfter ==
    \A p \in DOMAIN proc :
        /\ (~Running(p) /\ proc'[p] # proc[p]) => proc'[p].run = runs'
                                                  /\ runs' = runs + 1
        /\ (OwnStep(p) /\ ~proc[p].verify /\ lastDone' = lastDone) =>
                FileState(files', args.manifest) =
                FileState(files, args.manifest)

\* The next completed run scans the files an unsaved run had copied, when
\* they are still in the source tree, and records each with the fingerprint
\* it computed.
C15_RecordedLater ==
    lastDone.valid =>
        \A rel \in lastDone.recovering :
            \A i \in 1..Len(lastDone.scanned) :
                lastDone.scanned[i].rel = rel =>
                    /\ HasKey(lastDone.saved, rel)
                    /\ EntryField(lastDone.saved, rel, <<"hash">>) =
                       PyStr(lastDone.scanned[i].hash)
                    /\ HasKey(Persisted(lastDone), rel)

\* C15: an I/O error on a file (the file has disappeared when it is to be
\* fingerprinted or copied) halts the backup run at that file: the process
\* ends with the exception, processes no later file and never saves, so the
\* manifest file is as it was while the copies made earlier in the run
\* remain; a later run that completes records the files copied earlier.
C15_IOErrorHaltsRun ==
    /\ [][C15_Halts /\ C15_NothingAfter]_vars
    /\ [](C15_RecordedLater)

\* A backup run halted by a disappeared file after it had copied another
\* one: the copy is in the backup tree and no manifest has been written.
C15_Witness ==
    \E p \in DOMAIN proc :
        /\ proc[p].pc = "crashed"
        /\ proc[p].exc = "FileNotFoundError"
        /\ ~proc[p].verify
        /\ \E i \in 1..Len(proc[p].scanned) :
            /\ proc[p].scanned[i].copied
            /\ join(args.backup, proc[p].scanned[i].rel) \in DOMAIN files
        /\ args.manifest \notin DOMAIN files
        /\ ~lastDone.valid

\* C16: a backup run never removes a key: when the run loaded a well-formed
\* manifest M, the manifest it persists has every key of M, and the entry of
\* every key the run did not copy (its file is no longer in the source tree,
\* or was skipped) is the entry of M.
C16_NoPruning ==
    (lastDone.valid /\ WellFormed(lastDone.mfile0)) =>
        \A k \in Keys(lastDone.loaded) :
            /\ HasKey(Persisted(lastDone), k)
            /\ ~CopiedBy(lastDone, k) =>
                    Lookup(Persisted(lastDone), k) = Lookup(lastDone.loaded, k)

\* A completed run loaded an entry whose file had been deleted from the
\* source tree, and persisted it.
C16_Witness ==
    /\ lastDone.valid
    /\ WellFormed(lastDone.mfile0)
    /\ \E k \in Keys(lastDone.loaded) :
        /\ join(args.source, k) \notin DOMAIN lastDone.fs
        /\ \A i \in Idx(lastDone) : lastDone.scanned[i].rel # k
        /\ HasKey(Persisted(lastDone), k)

\* The regular files under the source directory that a run is to classify:
\* those whose base name is not the reserved name.  fs is the file system
\* the run left; the manifest file is not among the files of the run when
\* the run itself created it.
ToClassify(run) ==
    {q \in DOMAIN run.fs :
        /\ IsPrefix(args.source, q)
        /\ basename(q) # MANIFEST_FILE_NAME
        /\ q = args.manifest => run.mfile0.present}

Summary(run, backed_up, unchanged) ==
    /\ run.backed_up_files = backed_up
    /\ run.skipped_files = unchanged
    /\ Line("Total files scanned", <<>>, backed_up + unchanged) \in Range(run.out)
    /\ Line("Files backed up", <<>>, backed_up) \in Range(run.out)
    /\ Line("Files unchanged", <<>>, unchanged) \in Range(run.out)

\* Every file to classify is classified once, as backed up or as skipped,
\* and the counts of the summary are the counts of the two classes.
C17_Counted ==
    lastDone.valid =>
        /\ \A i, j \in Idx(lastDone) :
                lastDone.scanned[i].rel = lastDone.scanned[j].rel => i = j
        /\ {join(args.source, lastDone.scanned[i].rel) : i \in Idx(lastDone)}
                = ToClassify(lastDone)
        /\ Summary(lastDone,
                   Cardinality({i \in Idx(lastDone) : lastDone.scanned[i].copied}),
                   Cardinality({i \in Idx(lastDone) : ~lastDone.scanned[i].copied}))
        /\ lastDone.backed_up_files + lastDone.skipped_files
                = Cardinality(ToClassify(lastDone))

\* The user's files of the scenario: a.txt and b/c.txt.
Scenario(run) ==
    /\ run.valid
    /\ {q \in DOMAIN run.fs : IsPrefix(args.source, q)} \ {args.manifest}
            = {<<"src", "a.txt">>, <<"src", "b", "c.txt">>}

\* The three runs of the scenario, each told from the histories of the last
\* two completed backup runs: the first invocation; the second with nothing
\* changed; the third after a.txt, and nothing else, was modified.
C17_Scenario ==
    /\ (Scenario(lastDone) /\ lastDone.run = 1 /\ lastDone.ext = 0)
        => Summary(lastDone, 2, 0)
    /\ (Scenario(lastDone) /\ lastDone.run = 2 /\ prevDone.run = 1
            /\ lastDone.ext = 0) => Summary(lastDone, 0, 2)
    /\ (Scenario(lastDone) /\ lastDone.run = 3 /\ prevDone.run = 2
            /\ prevDone.mfile0.present /\ prevDone.ext = 0 /\ lastDone.ext = 1
            /\ lastDone.fs[<<"src", "a.txt">>] # prevDone.fs[<<"src", "a.txt">>])
        => /\ Summary(lastDone, 1, 1)
           /\ EntryField(Persisted(lastDone), <<"a.txt">>, <<"hash">>) #
              EntryField(Persisted(prevDone), <<"a.txt">>, <<"hash">>)
           /\ EntryField(Persisted(lastDone), <<"a.txt">>, <<"hash">>) =
              PyStr(SHA256(lastDone.fs[<<"src", "a.txt">>]))
           /\ \A k \in Keys(Persisted(lastDone)) \ {<<"a.txt">>} :
                /\ HasKey(Persisted(prevDone), k)
                /\ EntryField(Persisted(lastDone), k, <<"hash">>) =
                   EntryField(Persisted(prevDone), k, <<"hash">>)

\* C17: in every backup run each regular file under the source directory
\* whose base name is not the reserved name is classified exactly once, as
\* backed up or as skipped, so that total scanned = backed up + skipped = the
\* number of such files; with the files a.txt and b/c.txt the first run
\* reports 2 backed up and 0 unchanged, the second 0 and 2, the third, after
\* a.txt was modified, 1 and 1, and only a.txt's fingerprint changes then.
C17_CountsAndScenario == C17_Counted /\ C17_Scenario

\* The verify run that started right after the last completed backup run,
\* over the files that run left, has printed its report.
VerifiedRightAfter ==
    /\ lastDone.valid
    /\ reports # <<>>
    /\ Last(reports).run = lastDone.run + 1
    /\ Last(reports).fs = lastDone.fs

\* C18: after a backup run that completed with no file changed by others
\* during the run, the persisted manifest has, for every source file R the
\* run scanned, an entry whose hash is the fingerprint of the source file and
\* of the copy at backupRoot/R; and a verify run started right afterwards
\* lists none of these files as missing or mismatched.
C18_PostRunConsistency ==
    lastDone.valid =>
        \A i \in Idx(lastDone) :
            LET R == lastDone.scanned[i].rel
            IN  /\ HasKey(Persisted(lastDone), R)
                /\ join(args.source, R) \in DOMAIN lastDone.fs
                /\ EntryField(Persisted(lastDone), R, <<"hash">>) =
                   PyStr(SHA256(lastDone.fs[join(args.source, R)]))
                /\ join(args.backup, R) \in DOMAIN lastDone.fs
                /\ EntryField(Persisted(lastDone), R, <<"hash">>) =
                   PyStr(SHA256(lastDone.fs[join(args.backup, R)]))
                /\ VerifiedRightAfter =>
                    /\ R \notin Range(Last(reports).missing_files)
                    /\ R \notin Range(Last(reports).mismatches)

\* The i-th file of a completed run was copied after its source had been
\* modified since it was fingerprinted: the copy holds the bytes the source
\* file holds, which are not the bytes that were fingerprinted.
Toctou(run, i) ==
    LET R == run.scanned[i].rel
    IN  /\ run.valid
        /\ run.scanned[i].copied
        /\ join(args.source, R) \in DOMAIN run.fs
        /\ join(args.backup, R) \in DOMAIN run.fs
        /\ run.fs[join(args.backup, R)] = run.fs[join(args.source, R)]
        /\ run.fs[join(args.source, R)] # run.scanned[i].content

\* The verify run that started after the last completed backup run, with no
\* event since that run completed, has printed its report.
VerifiedSince ==
    /\ lastDone.valid
    /\ reports # <<>>
    /\ Last(reports).run > lastDone.run
    /\ ext = lastDone.ext

\* The copy step writes the bytes the source file holds at that moment and
\* records the fingerprint computed before.
C19_CopyStep ==
    \A p \in DOMAIN proc :
        (proc[p].pc = "decide" /\ proc'[p].pc = "walk"
            /\ proc'[p].backed_up_files = proc[p].backed_up_files + 1) =>
            LET R == relpath(proc[p].source_file_path, args.source)
            IN  /\ files'[join(args.backup, R)] = files[proc[p].source_file_path]
                /\ EntryField(proc'[p].updated_manifest, R, <<"hash">>) =
                   PyStr(SHA256(proc[p].content))

C19_Window ==
    /\ \A i \in Idx(lastDone) :
        Toctou(lastDone, i) =>
            LET R == lastDone.scanned[i].rel
            IN  /\ EntryField(Persisted(lastDone), R, <<"hash">>) =
                   PyStr(SHA256(lastDone.scanned[i].content))
                /\ EntryField(Persisted(lastDone), R, <<"hash">>) #
                   PyStr(SHA256(lastDone.fs[join(args.backup, R)]))
                /\ VerifiedSince => R \in Range(Last(reports).mismatches)
    /\ \A i \in Idx(prevDone) :
        (Toctou(prevDone, i) /\ lastDone.ext = prevDone.ext) =>
            LET R == prevDone.scanned[i].rel
            IN  /\ CopiedBy(lastDone, R)
                /\ lastDone.fs[join(args.backup, R)] =
                   prevDone.fs[join(args.source, R)]
                /\ EntryField(Persisted(lastDone), R, <<"hash">>) =
                   PyStr(SHA256(prevDone.fs[join(args.source, R)]))
                /\ VerifiedSince =>
                    /\ R \notin Range(Last(reports).mismatches)
                    /\ R \notin Range(Last(reports).missing_files)

\* C19: the fingerprint recorded for a copied file is the one computed
\* before the copy: when the source file is modified between its
\* fingerprinting and its copy, the persisted entry holds the fingerprint of
\* the old bytes, backupRoot/R holds the new bytes and verify lists R as
\* mismatched; the next backup run, the source left as it is, copies R again,
\* and verify then does not list R.
C19_ToctouWindow ==
    /\ [][C19_CopyStep]_vars
    /\ [](C19_Window)

\* A file was modified between fingerprinting and copy, the next backup run
\* copied it again, and the verify run after that reported it intact.
C19_Witness ==
    /\ VerifiedSince
    /\ lastDone.ext = prevDone.ext
    /\ \E i \in Idx(prevDone) :
        /\ Toctou(prevDone, i)
        /\ CopiedBy(lastDone, prevDone.scanned[i].rel)
        /\ prevDone.scanned[i].rel \notin Range(Last(reports).mismatches)
    /\ Last(reports).total_files > 0
=============================================================================
